---- MODULE Spec2Model ----
(***************************************************************************)
(* Streaming (incremental-state) protocol of the SRU++ transducer modules  *)
(* of experiments/e2e_asr/extension.py:                                    *)
(*   SRUppTransducerAttention, SRUppTransducerLinear, SRUppTransducerCell. *)
(*                                                                         *)
(* Tensors are abstracted by their time axis: a tensor is the sequence of  *)
(* its rows, and a row is the symbolic term saying what it was computed    *)
(* from (which module's weights, which absolute timestep, which keys).     *)
(* Batch and feature axes carry no control flow and are left out.          *)
(* Python objects that are mutated in place (the incremental_state dicts)  *)
(* live in a heap and are passed by reference.                             *)
(***************************************************************************)
EXTENDS Integers, Sequences, FiniteSets, TLC

\* ---------------------------------------------------------------- bounds
MaxChunk == 3       \* longest chunk fed in one call
MaxWindow == 2      \* largest right_window a module is built with
MaxFed == 5         \* most timesteps fed to a session that runs alone
MaxFedPair == 4     \* most timesteps fed, in total, to two interleaved sessions
MaxProj == 12       \* largest proj_features tried at construction
MaxHeads == 4       \* largest num_heads tried at construction
MaxLen == 3         \* longest token sequence given to the classifier
MaxCalls == 3       \* most calls of the classifier's forward
MaxEpoch == 3       \* largest args.max_epoch
SetSize == 3        \* examples in the validation set and in the test set

ModuleIds == {1, 2}
Refs == {1, 2}

Max(a, b) == IF a >= b THEN a ELSE b
Min(a, b) == IF a <= b THEN a ELSE b

\* ------------------------------------------------------- python helpers
\* Python's s[start:end] on a sequence (0-based, negative indices count
\* from the end, out-of-range indices are clamped).
PyIndex(i, n) == IF i < 0 THEN Max(i + n, 0) ELSE Min(i, n)

PySlice(s, start, end) ==
    LET a == PyIndex(start, Len(s))
        b == PyIndex(end, Len(s))
    IN IF a < b THEN SubSeq(s, a + 1, b) ELSE <<>>

SeqMap(F(_), s) == [k \in 1..Len(s) |-> F(s[k])]

\* ------------------------------------------------------------- optionals
\* Optional[Tensor] arguments: given = FALSE is None.
NoMask == [given |-> FALSE, rows |-> <<>>, cols |-> 0]
\* an additive attention mask of shape (r, c); rows keep their index
AttnMask(r, c) == [given |-> TRUE, rows |-> [k \in 1..r |-> k], cols |-> c]
\* a boolean pad mask of shape (src_len, bsz); pad[k] = TRUE masks key k
NoPad == [given |-> FALSE, pad |-> <<>>]
PadMask(bits) == [given |-> TRUE, pad |-> bits]
NoCarry == [given |-> FALSE, c |-> <<>>]
Carry(c) == [given |-> TRUE, c |-> c]

\* ------------------------------------------------------- dict encodings
\* The inner dict  state : Dict[str, Optional[Tensor]]  and the outer dict
\* incremental_state : Dict[str, Dict[...]].  keys is the set of keys
\* present; a slot that is not in keys is never read.
EmptyState == [keys |-> {}, saved_query |-> <<>>, saved_key |-> <<>>,
               saved_value |-> <<>>]
\* strings usable as keys of the outer dict; the code uses one literal
DictKeys == {"attn_state", "attn_state.1", "attn_state.2"}
EmptyDict == [keys |-> {}, val |-> [key \in DictKeys |-> EmptyState]]

\* --------------------------------------------------------- error values
OK == "ok"
AssertMaskPad == "AssertionError: mask_pad is not None"
AssertKV == "AssertionError: v.size(0) != k.size(0)"
ErrDim == "ValueError: Input must be 3 dimensional"
ErrAttnMask == "ValueError: attn_mask has size"
ErrPadMask == "ValueError: mask_pad has size"
ErrView == "RuntimeError: cannot reshape tensor of 0 elements"
ErrConfig == "ValueError: proj_features must be divisible by num_heads"
ErrRecurrence == "RuntimeError: shape mismatch in recurrence"

\* ---------------------------------------------------------- constructors
NoModule == [cls |-> "none", id |-> 0, has_attention |-> FALSE,
             right_window |-> 0, proj_features |-> 0, num_heads |-> 0,
             device |-> "cpu"]

\* variant: the divisibility test has its operands swapped
NewAttentionSwapped(id, proj_features, num_heads, right_window) ==
    IF num_heads % proj_features # 0
    THEN [err |-> ErrConfig, obj |-> NoModule]
    ELSE [err |-> OK,
          obj |-> [cls |-> "SRUppTransducerAttention", id |-> id,
                   has_attention |-> TRUE, right_window |-> right_window,
                   proj_features |-> proj_features, num_heads |-> num_heads,
                   device |-> "cpu"]]

\* SRUppTransducerAttention.__init__
NewAttention(id, proj_features, num_heads, right_window) ==
    IF proj_features % num_heads # 0
    THEN [err |-> ErrConfig, obj |-> NoModule]
    ELSE [err |-> OK,
          obj |-> [cls |-> "SRUppTransducerAttention", id |-> id,
                   has_attention |-> TRUE, right_window |-> right_window,
                   proj_features |-> proj_features, num_heads |-> num_heads,
                   device |-> "cpu"]]

\* SRUppTransducerLinear.__init__
NewLinear(id, proj_features, right_window) ==
    [err |-> OK,
     obj |-> [cls |-> "SRUppTransducerLinear", id |-> id,
              has_attention |-> FALSE, right_window |-> right_window,
              proj_features |-> proj_features, num_heads |-> 1,
              device |-> "cpu"]]

\* SRUppTransducerCell.__init__ : builds its transform_module first
NewCell(id, projection_size, num_heads, has_attention, right_window) ==
    LET t == IF has_attention
             THEN NewAttention(id, projection_size, num_heads, right_window)
             ELSE NewLinear(id, projection_size, right_window)
    IN IF t.err # OK
       THEN [err |-> t.err, obj |-> NoModule]
       ELSE [err |-> OK,
             obj |-> [t.obj EXCEPT !.cls = "SRUppTransducerCell"]]

\* self.transform_module of a cell
TransformOf(self) ==
    [self EXCEPT !.cls = IF self.has_attention
                         THEN "SRUppTransducerAttention"
                         ELSE "SRUppTransducerLinear"]

\* ------------------------------------------------------ row computations
\* self.linear1(input): one projected query per input timestep.  A row
\* remembers whose weights projected it and the timestep it came from.
Linear1(self, rows) == [k \in 1..Len(rows) |-> [w |-> self.id, t |-> rows[k]]]

\* self.linear2(q).chunk(2, dim=-1): the key half and the value half
Linear2Key(self, q) == [k \in 1..Len(q) |-> [w |-> self.id, part |-> "k", q |-> q[k]]]
Linear2Value(self, q) == [k \in 1..Len(q) |-> [w |-> self.id, part |-> "v", q |-> q[k]]]

\* keys left visible by the pad mask (masked_fill with -inf before softmax)
Visible(k, mask_pad) ==
    IF mask_pad.given
    THEN SelectSeq([j \in 1..Len(k) |-> [row |-> k[j], pad |-> mask_pad.pad[j]]],
                   LAMBDA e : ~e.pad)
    ELSE [j \in 1..Len(k) |-> [row |-> k[j], pad |-> FALSE]]

\* softmax(q k^T + mask) v * alpha + residual, then linear3: output row j
\* is a function of query j, of every visible key/value and of mask row j
AttnRows(self, q, k, v, attn_mask, mask_pad) ==
    [j \in 1..Len(q) |->
        [w |-> self.id, q |-> q[j],
         keys |-> SeqMap(LAMBDA e : e.row, Visible(k, mask_pad)),
         vals |-> SeqMap(LAMBDA e : e.row, Visible(v, mask_pad)),
         mask |-> IF attn_mask.given THEN attn_mask.rows[j] ELSE 0]]

\* self.linear2(self.dropout(layer_norm(q))) of the linear variant
LinearRows(self, q) ==
    [j \in 1..Len(q) |->
        [w |-> self.id, q |-> q[j], keys |-> <<>>, vals |-> <<>>, mask |-> 0]]

\* ---------------------------------------------------------------- cursor
\* variant: every module instance files its record under a key of its own
StateKeyPerModule(self) == IF self.id = 1 THEN "attn_state.1" ELSE "attn_state.2"

\* the key under which a transform module files its state record
StateKey(self) == "attn_state"

\* variant: the module reads the first dict it was ever given
FetchStateFirstDict(self, heap, incremental_state) ==
    IF StateKey(self) \in heap[1].keys
    THEN heap[1].val[StateKey(self)]
    ELSE EmptyState

\* incremental_state["attn_state"] if present, else a fresh {}
FetchState(self, heap, incremental_state) ==
    IF StateKey(self) \in heap[incremental_state].keys
    THEN heap[incremental_state].val[StateKey(self)]
    ELSE EmptyState

\* variant: the chunk's queries are put before the saved ones
AllQueryChunkFirst(state, q) ==
    IF "saved_query" \in state.keys THEN q \o state.saved_query ELSE q

\* variant: the saved queries are not taken back
AllQueryDropSaved(state, q) == q

\* torch.cat([saved_query, q]) when the slot exists, else q
AllQuery(state, q) ==
    IF "saved_query" \in state.keys THEN state.saved_query \o q ELSE q

\* variant: one query too many is held back
NumQueryReadyLate(all_query, right_window) ==
    LET n == Len(all_query) - right_window - 1
    IN IF n < 0 THEN 0 ELSE n

\* variant: the floor at 0 is missing
NumQueryReadyNoFloor(all_query, right_window) == Len(all_query) - right_window

\* num_query_ready = all_query.size(0) - right_window, floored at 0
NumQueryReady(all_query, right_window) ==
    LET n == Len(all_query) - right_window
    IN IF n < 0 THEN 0 ELSE n

\* variant: the assertion is compiled away
MaskPadAlwaysAccepted(streaming, mask_pad) == TRUE

\* assert mask_pad is None  (under  incremental_state is not None)
MaskPadAccepted(streaming, mask_pad) == ~(streaming /\ mask_pad.given)

\* variant: the cache is overwritten with the new rows only
PrependSavedOverwrite(state, slot, saved, new) == new

\* variant: the new rows are put in front of the history
PrependSavedReversed(state, slot, saved, new) ==
    IF slot \in state.keys THEN new \o saved ELSE new

\* torch.cat([saved, new]) when the slot exists, else new
PrependSaved(state, slot, saved, new) ==
    IF slot \in state.keys THEN saved \o new ELSE new

\* tensor.view(len, -1, head_dim): a tensor without elements cannot be
\* viewed with an inferred dimension
ViewAccepted(len) == len # 0

QueryReady(all_query, n) == PySlice(all_query, 0, n)
\* variant: the held-back rows are taken from the tail by right_window
QueryNotReadySkipOne(all_query, n) == PySlice(all_query, n + 1, Len(all_query))

QueryNotReady(all_query, n) == PySlice(all_query, n, Len(all_query))

\* attn_mask[start_idx:end_idx] of the streaming branch
SliceAttnMask(attn_mask, all_query, query_not_ready) ==
    IF attn_mask.given
    THEN LET size0 == Len(attn_mask.rows)
             start_idx == size0 - Len(all_query)
             end_idx == size0 - Len(query_not_ready)
         IN [attn_mask EXCEPT !.rows = PySlice(attn_mask.rows, start_idx, end_idx)]
    ELSE attn_mask

\* variant: the record is filed in a copy of the dict the caller never sees
StoreStateDetached(self, heap, incremental_state, state) == heap

\* incremental_state["attn_state"] = state  (in place, so in the heap)
StoreState(self, heap, incremental_state, state) ==
    [heap EXCEPT ![incremental_state] =
        [keys |-> @.keys \cup {StateKey(self)},
         val |-> [@.val EXCEPT ![StateKey(self)] = state]]]

\* what a transform call returns when it raises
Raise(e, heap, obs) ==
    [err |-> e, output |-> <<>>, state |-> 0, heap |-> heap, obs |-> obs]

NoObs == [streaming |-> FALSE, pre |-> EmptyState, all_query |-> <<>>,
          num_ready |-> 0, query_ready |-> <<>>, query_not_ready |-> <<>>,
          tgt_len |-> 0, src_len |-> 0, mask_rows |-> <<>>]

\* ------------------------------------------------------ the cursor split
\* all_query cut at num_query_ready
SplitAt(all_query, n) ==
    [all_query |-> all_query, num_ready |-> n,
     query_ready |-> QueryReady(all_query, n),
     query_not_ready |-> QueryNotReady(all_query, n)]

\* saved queries first, then the chunk's; all but the last right_window ready
Cursor(self, state, q) ==
    SplitAt(AllQuery(state, q), NumQueryReady(AllQuery(state, q), self.right_window))

\* what a streaming call has seen of the cursor
Observed(state, cur, tgt_len, src_len, mask) ==
    [streaming |-> TRUE, pre |-> state, all_query |-> cur.all_query,
     num_ready |-> cur.num_ready, query_ready |-> cur.query_ready,
     query_not_ready |-> cur.query_not_ready,
     tgt_len |-> tgt_len, src_len |-> src_len, mask_rows |-> mask.rows]

\* ------------------------------------------- SRUppTransducerAttention.forward
\* input is the sequence of the chunk's timesteps; incremental_state is a
\* heap reference, 0 for None.  The result carries the heap after the call:
\* the dict is mutated in place, so a call that raises after line 173 leaves
\* its writes behind.

\* lines 175-220: heads, scores, masks, softmax, output projection
AttentionCore(self, q, k, v, mask, mask_pad, incremental_state, heap1, obs) ==
    IF ~ViewAccepted(Len(q)) \/ ~ViewAccepted(Len(k))
        THEN Raise(ErrView, heap1, obs)
    ELSE IF mask.given /\ (Len(mask.rows) # Len(q) \/ mask.cols # Len(k))
        THEN Raise(ErrAttnMask, heap1, obs)
    ELSE IF mask_pad.given /\ Len(mask_pad.pad) # Len(k)
        THEN Raise(ErrPadMask, heap1, obs)
    ELSE [err |-> OK,
          output |-> AttnRows(self, q, k, v, mask, mask_pad),
          state |-> incremental_state,
          heap |-> heap1,
          obs |-> obs]

\* lines 158-173: the history is prepended and the three slots are stored
AttentionStore(self, mask, incremental_state, heap, state, cur, k, v) ==
    IF Len(v) # Len(k)
    THEN Raise(AssertKV, heap, Observed(state, cur, Len(cur.query_ready), Len(k), mask))
    ELSE AttentionCore(self, cur.query_ready, k, v, mask, NoPad, incremental_state,
            StoreState(self, heap, incremental_state,
                [keys |-> state.keys \cup {"saved_query", "saved_key", "saved_value"},
                 saved_query |-> cur.query_not_ready,
                 saved_key |-> k,
                 saved_value |-> v]),
            Observed(state, cur, Len(cur.query_ready), Len(k), mask))

\* lines 115-154 of a streaming call: cursor, mask slice, new keys and values
AttentionStreaming(self, attn_mask, incremental_state, heap, state, cur) ==
    AttentionStore(self,
        SliceAttnMask(attn_mask, cur.all_query, cur.query_not_ready),
        incremental_state, heap, state, cur,
        PrependSaved(state, "saved_key", state.saved_key,
                     Linear2Key(self, cur.query_ready)),
        PrependSaved(state, "saved_value", state.saved_value,
                     Linear2Value(self, cur.query_ready)))

AttentionForward(self, input, mask_pad, attn_mask, incremental_state, heap) ==
    IF ~MaskPadAccepted(incremental_state # 0, mask_pad)
        THEN Raise(AssertMaskPad, heap, NoObs)
    ELSE IF incremental_state # 0
        THEN AttentionStreaming(self, attn_mask, incremental_state, heap,
                FetchState(self, heap, incremental_state),
                Cursor(self, FetchState(self, heap, incremental_state),
                       Linear1(self, input)))
    ELSE AttentionCore(self, Linear1(self, input),
                       Linear2Key(self, Linear1(self, input)),
                       Linear2Value(self, Linear1(self, input)),
                       attn_mask, mask_pad, 0, heap,
                       [NoObs EXCEPT !.num_ready = Len(input),
                                     !.tgt_len = Len(input), !.src_len = Len(input)])

\* ---------------------------------------------- SRUppTransducerLinear.forward
\* lines 309-324 of a streaming call
LinearStreaming(self, incremental_state, heap, state, cur) ==
    [err |-> OK,
     output |-> LinearRows(self, cur.query_ready),
     state |-> incremental_state,
     heap |-> StoreState(self, heap, incremental_state,
                [state EXCEPT !.keys = @ \cup {"saved_query"},
                              !.saved_query = cur.query_not_ready]),
     obs |-> Observed(state, cur, Len(cur.query_ready), 0, NoMask)]

LinearForward(self, input, mask_pad, attn_mask, incremental_state, heap) ==
    IF ~MaskPadAccepted(incremental_state # 0, mask_pad)
        THEN Raise(AssertMaskPad, heap, NoObs)
    ELSE IF incremental_state # 0
        THEN LinearStreaming(self, incremental_state, heap,
                FetchState(self, heap, incremental_state),
                Cursor(self, FetchState(self, heap, incremental_state),
                       Linear1(self, input)))
    ELSE [err |-> OK,
          output |-> LinearRows(self, Linear1(self, input)),
          state |-> 0,
          heap |-> heap,
          obs |-> [NoObs EXCEPT !.num_ready = Len(input), !.tgt_len = Len(input)]]

\* self.transform_module(input, ...) : dispatch on the wrapped variant
TransformForward(self, input, mask_pad, attn_mask, incremental_state, heap) ==
    IF self.has_attention
    THEN AttentionForward(self, input, mask_pad, attn_mask, incremental_state, heap)
    ELSE LinearForward(self, input, mask_pad, attn_mask, incremental_state, heap)

\* ------------------------------------------------- SRUCell.apply_recurrence
\* (h_t, c_t) = f(U_t, x_t, c_{t-1}).  The carry is the term built from the
\* (U_t, x_t) pairs folded so far, the zero carry being the empty term; a
\* hidden row is the triple it was computed from.  The recurrence walks the
\* rows of U and pairs row k of U with row k of the highway input.  When the
\* two tensors differ in length the kernel of a module held on the cpu
\* raises and the kernel of a module moved to cuda reads row k regardless,
\* row -1 standing for a read past the end of the highway tensor.
Devices == {"cpu", "cuda"}

\* module.cuda()
ToDevice(self, device) == [self EXCEPT !.device = device]

HighwayRow(input, k) == IF k <= Len(input) THEN input[k] ELSE 0 - 1

\* the (U_t, x_t) pairs the recurrence consumes, in order
HighwayPairs(U, input) ==
    [k \in 1..Len(U) |-> [u |-> U[k], x |-> HighwayRow(input, k)]]

Fold(c0, pairs) ==
    [err |-> OK,
     h |-> [k \in 1..Len(pairs) |->
              [u |-> pairs[k].u, x |-> pairs[k].x, c |-> c0 \o SubSeq(pairs, 1, k - 1)]],
     c |-> c0 \o pairs]

ApplyRecurrence(self, U, input, c0) ==
    IF self.device = "cpu" /\ Len(input) # Len(U)
    THEN [err |-> ErrRecurrence, h |-> <<>>, c |-> c0]
    ELSE Fold(c0, HighwayPairs(U, input))

\* ------------------------------------------------ SRUppTransducerCell.forward
\* lines 405-419: t is what the transform module returned, r the recurrence
CellReturn(carry0, t, r) ==
    IF t.err # OK
        THEN [err |-> t.err, h |-> <<>>, c |-> carry0, state |-> 0,
              heap |-> t.heap, obs |-> t.obs, recurred |-> FALSE]
    ELSE IF Len(t.output) = 0
        \* U.numel() == 0 : pop out an empty tensor as well
        THEN [err |-> OK, h |-> <<>>, c |-> carry0, state |-> t.state,
              heap |-> t.heap, obs |-> t.obs, recurred |-> FALSE]
    ELSE [err |-> r.err, h |-> r.h, c |-> IF r.err = OK THEN r.c ELSE carry0,
          state |-> IF r.err = OK THEN t.state ELSE 0,
          heap |-> t.heap, obs |-> t.obs, recurred |-> TRUE]

\* lines 396-404: the transform module's U fed to the recurrence with the
\* incoming chunk as highway input
CellTransform(self, input, carry0, t) ==
    CellReturn(carry0, t, ApplyRecurrence(self, t.output, input.rows, carry0))

\* input = [ndim, rows]; c0 is an optional carry
CellForward(self, input, c0, mask_pad, attn_mask, incremental_state, heap) ==
    IF input.ndim # 3
    THEN [err |-> ErrDim, h |-> <<>>, c |-> IF c0.given THEN c0.c ELSE <<>>,
          state |-> 0, heap |-> heap, obs |-> NoObs, recurred |-> FALSE]
    ELSE CellTransform(self, input,
            IF c0.given THEN c0.c ELSE <<>>,      \* torch.zeros(...)
            TransformForward(TransformOf(self), input.rows, mask_pad, attn_mask,
                             incremental_state, heap))

\* ---------------------------------- classification/train_classifier.py Model
\* Tensors are again terms: an embedded sequence is the sequence of its
\* tokens' embeddings, an encoder result says which encoder produced it from
\* which embedded sequence.  The dropout layers change neither shapes nor
\* control flow and are left out.
Vocab == {1, 2}

UnboundLocal == "UnboundLocalError: local variable 'hidden' referenced before assignment"

NoClassifier == [built |-> FALSE, cnn |-> FALSE, lstm |-> FALSE,
                 encoder |-> "none", d_out |-> 0]

\* Model.__init__ : args.cnn is tested first, then args.lstm, else SRU
NewModel(cnn, lstm, d) ==
    [built |-> TRUE, cnn |-> cnn, lstm |-> lstm,
     encoder |-> IF cnn THEN "CNN_Text" ELSE IF lstm THEN "LSTM" ELSE "SRU",
     d_out |-> IF cnn THEN 300 ELSE d]

\* input.t()
Transpose(input) == [input EXCEPT !.axes = <<@[2], @[1]>>]

\* self.emb_layer(input)
EmbLayer(input) == [k \in 1..Len(input.toks) |-> [emb |-> input.toks[k]]]

\* a local name of forward: bound once it has been assigned
Unbound == [bound |-> FALSE, enc |-> "none", of |-> <<>>]

\* self.encoder(emb) of the recurrent encoders: the output sequence and the
\* final recurrent state
Encode(encoder, emb) ==
    [output |-> [k \in 1..Len(emb) |-> [enc |-> encoder, of |-> SubSeq(emb, 1, k)]],
     hidden |-> [bound |-> TRUE, enc |-> encoder, of |-> emb]]

\* self.encoder(emb) of CNN_Text: one pooled feature vector, nothing else
EncodeCNN(emb) == [enc |-> "CNN_Text", of |-> emb]

\* self.out(output)
Out(output) == [linear |-> output]

NoReturn == [err |-> OK, logits |-> Out([enc |-> "none", of |-> <<>>]),
             hidden |-> Unbound]

\* return self.out(output), hidden : reading a local that was never assigned
\* raises
ReturnPair(logits, hidden) ==
    IF ~hidden.bound
    THEN [NoReturn EXCEPT !.err = UnboundLocal]
    ELSE [err |-> OK, logits |-> logits, hidden |-> hidden]

\* the branch of forward taken by the recurrent encoders
ForwardRecurrent(encoded) ==
    ReturnPair(Out(encoded.output[Len(encoded.output)]), encoded.hidden)

\* Model.forward
ModelForward(self, input) ==
    IF self.cnn
    THEN ReturnPair(Out(EncodeCNN(EmbLayer(Transpose(input)))), Unbound)
    ELSE ForwardRecurrent(Encode(self.encoder, EmbLayer(input)))

\* ------------------------------ classification/train_classifier.py training
\* eval_model returns 1.0 - correct/cnt.  With cnt = SetSize examples an
\* error is carried as its numerator, the number of misclassified examples,
\* in units of 1/SetSize.
EvalModel(correct) == SetSize - correct

\* best_valid = 1e+8, test_err = 1e+8, in the same units
InitialBest == 100000000 * SetSize

AttributeErr == "AttributeError: object has no attribute 'rnn_lst'"

NoTraining == [started |-> FALSE, max_epoch |-> 0, epoch |-> 0,
               best_valid |-> InitialBest, test_err |-> InitialBest,
               err |-> OK, valid_hist |-> <<>>, test_hist |-> <<>>]

\* variant: a tie with the best validation error also counts
ImprovedOrEqual(valid_err, best_valid) == valid_err <= best_valid

\* if valid_err < best_valid
Improved(valid_err, best_valid) == valid_err < best_valid

\* the ways train_model can fail before it measures anything:
\* model.encoder.rnn_lst is read first, then every batch goes through
\* model(x).  nn.LSTM has no rnn_lst; for CNN_Text either the attribute is
\* missing or forward raises.
TrainFailures(model) ==
    IF model.encoder = "SRU" THEN {}
    ELSE IF model.encoder = "LSTM" THEN {AttributeErr}
    ELSE {AttributeErr, UnboundLocal}

\* train_model, from the validation of line 138 on: valid_err is what
\* eval_model measures on the validation set, test_measure what it would
\* measure on the test set
TrainModel(best_valid, test_err, valid_err, test_measure) ==
    IF Improved(valid_err, best_valid)
    THEN [best_valid |-> valid_err, test_err |-> test_measure, evaluated |-> TRUE]
    ELSE [best_valid |-> best_valid, test_err |-> test_err, evaluated |-> FALSE]

\* ===================================================================== state
VARIABLES
    modules,    \* module id -> the constructed module object (NoModule: none)
    sessions,   \* the (dict reference, module) pairs that callers stream on
    heap,       \* reference -> the incremental_state dict it points to
    carry,      \* per session: the carry the caller threads to the next call
    fed,        \* per session: timesteps handed to the module so far
    ready,      \* per session: sum of num_query_ready over its calls
    outs,       \* per session: concatenation of the chunks returned so far
    solo,       \* per session, when sessions interleave: the same calls
                \* replayed on a private dict
    plain,      \* per session: every call so far had a 3-axis chunk, no masks
    last,       \* the latest call: its arguments and what it returned
    clf,        \* the classification Model, its latest input and what
                \* forward returned for it
    train       \* main's training loop: its locals, and per epoch what
                \* train_model measured

vars == <<modules, sessions, heap, carry, fed, ready, outs, solo, plain, last,
          clf, train>>

Pairs == Refs \X ModuleIds

TotalFed == fed[<<1, 1>>] + fed[<<1, 2>>] + fed[<<2, 1>>] + fed[<<2, 2>>]

\* the timesteps the callers may still feed
FedBudget == IF Cardinality(sessions) <= 1 THEN MaxFed ELSE MaxFedPair

NoCall == [op |-> "init", ref |-> 0, m |-> 0, L |-> 0, ndim |-> 3,
           mask_pad |-> FALSE, attn_mask |-> [given |-> FALSE, nrows |-> 0, cols |-> 0],
           c0 |-> NoCarry, err |-> OK, out |-> <<>>, c |-> <<>>, state |-> 0,
           obs |-> NoObs, recurred |-> FALSE, stored |-> FALSE,
           cls |-> "", has_attention |-> FALSE,
           proj_features |-> 0, num_heads |-> 0]

\* the modules a streaming session may run on, as their constructors leave them
BuiltModules(id) ==
    {ToDevice(NewCell(id, 12, 3, att, rw).obj, d) :
        att \in BOOLEAN, rw \in 0..MaxWindow, d \in Devices}
    \cup {NewAttention(id, 12, 3, rw).obj : rw \in 0..MaxWindow}
    \cup {NewLinear(id, 12, rw).obj : rw \in 0..MaxWindow}

InitSessions ==
    /\ heap = [r \in Refs |-> EmptyDict]
    /\ carry = [s \in Pairs |-> NoCarry]
    /\ fed = [s \in Pairs |-> 0]
    /\ ready = [s \in Pairs |-> 0]
    /\ outs = [s \in Pairs |-> <<>>]
    /\ solo = [s \in Pairs |-> [dict |-> EmptyDict, carry |-> NoCarry, num_ready |-> 0]]
    /\ plain = [s \in Pairs |-> TRUE]
    /\ last = NoCall
    /\ clf = [model |-> NoClassifier, calls |-> 0, input |-> <<>>, ret |-> NoReturn]
    /\ train = NoTraining

\* one module, one streaming session
Init ==
    /\ InitSessions
    /\ sessions = {<<1, 1>>}
    /\ \E o \in BuiltModules(1) : modules = [m \in ModuleIds |-> IF m = 1 THEN o ELSE NoModule]

\* ------------------------------------------------------------- call inputs
ChunkRows(s, L) == [k \in 1..L |-> fed[s] + k]

\* an all-false pad mask over the chunk
ChunkPad(L) == PadMask([k \in 1..L |-> FALSE])

\* attention masks a caller may pass: none, one with a row per timestep fed
\* so far and a column per released timestep, one square over all fed
MaskChoices(s, m, L) ==
    LET total == fed[s] + L
    IN {NoMask,
        AttnMask(total, Max(0, total - modules[m].right_window)),
        AttnMask(total, total)}

\* the optional arguments of one call: an attention mask, or a pad mask
CallChoices(s, m, L) ==
    {[mask_pad |-> NoPad, attn_mask |-> a] : a \in MaskChoices(s, m, L)}
    \cup {[mask_pad |-> ChunkPad(L), attn_mask |-> NoMask]}

MaskShape(attn_mask) ==
    [given |-> attn_mask.given, nrows |-> Len(attn_mask.rows), cols |-> attn_mask.cols]

\* the replay of a call on the session's private dict
SoloHeap(s) == [r \in Refs |-> solo[s].dict]

\* what the caller keeps after a call: the dict was mutated in place whatever
\* the outcome; carry and output are taken only from a call that returned
Bookkeep(s, L, res, h, c, soloRes, isPlain) ==
    LET absorbed == res.err = OK \/ res.heap # heap
    IN /\ heap' = res.heap
       /\ fed' = [fed EXCEPT ![s] = IF absorbed THEN @ + L ELSE @]
       /\ ready' = [ready EXCEPT ![s] = IF absorbed THEN @ + res.obs.num_ready ELSE @]
       /\ outs' = [outs EXCEPT ![s] = IF res.err = OK THEN @ \o h ELSE @]
       /\ carry' = [carry EXCEPT ![s] = IF res.err = OK THEN c ELSE @]
       /\ solo' = IF Cardinality(sessions) <= 1 THEN solo
                  ELSE [solo EXCEPT ![s] =
                          [dict |-> soloRes.heap[s[1]],
                           carry |-> IF soloRes.err # OK THEN @.carry
                                     ELSE IF c.given THEN Carry(soloRes.c)
                                     ELSE NoCarry,
                           num_ready |-> soloRes.obs.num_ready]]
       /\ plain' = [plain EXCEPT ![s] = @ /\ isPlain]
       /\ UNCHANGED <<modules, sessions, clf, train>>

\* ------------------------------------------------------------------ actions
\* a streaming call of SRUppTransducerCell.forward, carry threaded by the caller
CellCall(r, m, L, ndim, mask_pad, attn_mask) ==
    LET s == <<r, m>>
        input == [ndim |-> ndim, rows |-> ChunkRows(s, L)]
    IN /\ s \in sessions
       /\ modules[m].cls = "SRUppTransducerCell"
       /\ TotalFed + L <= FedBudget
       /\ \E res \in {CellForward(modules[m], input, carry[s], mask_pad, attn_mask,
                                  r, heap)} :
            /\ Bookkeep(s, L, res, res.h, Carry(res.c),
                        CellForward(modules[m], input, solo[s].carry, mask_pad,
                                    attn_mask, r, SoloHeap(s)),
                        ndim = 3 /\ ~mask_pad.given /\ ~attn_mask.given)
            /\ last' = [NoCall EXCEPT !.op = "cell", !.ref = r, !.m = m, !.L = L,
                          !.ndim = ndim, !.mask_pad = mask_pad.given,
                          !.attn_mask = MaskShape(attn_mask), !.c0 = carry[s],
                          !.err = res.err, !.out = res.h, !.c = res.c,
                          !.state = res.state, !.obs = res.obs,
                          !.recurred = res.recurred, !.stored = res.heap # heap]

\* a streaming call made directly on a transform module
TransformCall(op, r, m, L, mask_pad, attn_mask) ==
    LET s == <<r, m>>
    IN /\ s \in sessions
       /\ TotalFed + L <= FedBudget
       /\ \E res \in {TransformForward(modules[m], ChunkRows(s, L), mask_pad,
                                       attn_mask, r, heap)} :
            /\ Bookkeep(s, L, res, res.output, NoCarry,
                        TransformForward(modules[m], ChunkRows(s, L), mask_pad,
                                         attn_mask, r, SoloHeap(s)),
                        ~mask_pad.given /\ ~attn_mask.given)
            /\ last' = [NoCall EXCEPT !.op = op, !.ref = r, !.m = m, !.L = L,
                          !.mask_pad = mask_pad.given,
                          !.attn_mask = MaskShape(attn_mask),
                          !.err = res.err, !.out = res.output,
                          !.state = res.state, !.obs = res.obs,
                          !.stored = res.heap # heap]

AttentionCall(r, m, L, mask_pad, attn_mask) ==
    /\ modules[m].cls = "SRUppTransducerAttention"
    /\ TransformCall("attention", r, m, L, mask_pad, attn_mask)

LinearCall(r, m, L, mask_pad, attn_mask) ==
    /\ modules[m].cls = "SRUppTransducerLinear"
    /\ TransformCall("linear", r, m, L, mask_pad, attn_mask)

\* a well-formed (3-axis) chunk with any of the optional arguments
CellStep ==
    \E s \in sessions, L \in 0..MaxChunk :
        \E a \in CallChoices(s, s[2], L) :
            CellCall(s[1], s[2], L, 3, a.mask_pad, a.attn_mask)

\* a chunk that lost its batch axis
CellStepBadInput ==
    \E s \in sessions, L \in 0..1, pad \in BOOLEAN :
        CellCall(s[1], s[2], L, 2, IF pad THEN ChunkPad(L) ELSE NoPad, NoMask)

AttentionStep ==
    \E s \in sessions, L \in 0..MaxChunk :
        \E a \in CallChoices(s, s[2], L) :
            AttentionCall(s[1], s[2], L, a.mask_pad, a.attn_mask)

LinearStep ==
    \E s \in sessions, L \in 0..MaxChunk :
        \E a \in CallChoices(s, s[2], L) :
            LinearCall(s[1], s[2], L, a.mask_pad, a.attn_mask)

\* the same calls with no optional argument
PlainCellStep ==
    \E s \in sessions, L \in 0..MaxChunk : CellCall(s[1], s[2], L, 3, NoPad, NoMask)

PlainAttentionStep ==
    \E s \in sessions, L \in 0..MaxChunk : AttentionCall(s[1], s[2], L, NoPad, NoMask)

PlainLinearStep ==
    \E s \in sessions, L \in 0..MaxChunk : LinearCall(s[1], s[2], L, NoPad, NoMask)

NextPlain == PlainCellStep \/ PlainAttentionStep \/ PlainLinearStep

Next == CellStep \/ CellStepBadInput \/ AttentionStep \/ LinearStep

Spec == Init /\ [][Next]_vars

\* ------------------------------------------------- two sessions, one module
\* each session owns its dict and its carry; the calls interleave freely
InitIsolation ==
    /\ InitSessions
    /\ sessions = {<<1, 1>>, <<2, 1>>}
    /\ \E o \in BuiltModules(1) : modules = [m \in ModuleIds |-> IF m = 1 THEN o ELSE NoModule]

SpecIsolation == InitIsolation /\ [][NextPlain]_vars

\* ------------------------------------------------- two modules, one dict
\* two layers of one session handed the same incremental_state
InitShared ==
    /\ InitSessions
    /\ sessions = {<<1, 1>>, <<1, 2>>}
    /\ \E o1 \in BuiltModules(1), o2 \in BuiltModules(2) :
          /\ o1.cls = o2.cls
          /\ o1.device = o2.device
          /\ o1.right_window = o2.right_window
          /\ modules = [m \in ModuleIds |-> IF m = 1 THEN o1 ELSE o2]

SpecShared == InitShared /\ [][NextPlain]_vars

\* ------------------------------------------------------------ construction
\* Construct(m, ...): build a module object into slot m
Construct(m, cls, proj_features, num_heads, has_attention, right_window) ==
    LET r == CASE cls = "SRUppTransducerAttention" ->
                    NewAttention(m, proj_features, num_heads, right_window)
               [] cls = "SRUppTransducerLinear" ->
                    NewLinear(m, proj_features, right_window)
               [] OTHER ->
                    NewCell(m, proj_features, num_heads, has_attention, right_window)
    IN /\ modules[m] = NoModule
       /\ \A j \in ModuleIds : j < m => modules[j] # NoModule
       /\ modules' = [modules EXCEPT ![m] = r.obj]
       /\ last' = [NoCall EXCEPT !.op = "construct", !.m = m, !.err = r.err,
                     !.cls = cls, !.has_attention = has_attention,
                     !.proj_features = proj_features, !.num_heads = num_heads]
       /\ UNCHANGED <<sessions, heap, carry, fed, ready, outs, solo, plain, clf, train>>

ConstructAttention ==
    \E m \in ModuleIds, p \in 1..MaxProj, n \in 1..MaxHeads, rw \in 0..MaxWindow :
        Construct(m, "SRUppTransducerAttention", p, n, TRUE, rw)

ConstructLinear ==
    \E m \in ModuleIds, p \in 1..MaxProj, rw \in 0..MaxWindow :
        Construct(m, "SRUppTransducerLinear", p, 1, FALSE, rw)

ConstructCell ==
    \E m \in ModuleIds, p \in 1..MaxProj, n \in 1..MaxHeads, att \in BOOLEAN,
       rw \in 0..MaxWindow :
        Construct(m, "SRUppTransducerCell", p, n, att, rw)

InitConstruct ==
    /\ InitSessions
    /\ sessions = {}
    /\ modules = [m \in ModuleIds |-> IF m = 1 THEN NoModule
                                       ELSE NewLinear(2, 12, 0).obj]

NextConstruct == ConstructAttention \/ ConstructLinear \/ ConstructCell

SpecConstruct == InitConstruct /\ [][NextConstruct]_vars

\* ------------------------------------- non-streaming calls beside a session
\* a call with incremental_state = None on a fresh chunk of timesteps 1..L
OfflineRows(L) == [k \in 1..L |-> k]

\* a pad mask over the chunk with its last timestep padded
OfflinePad(L) == PadMask([k \in 1..L |-> k = L /\ L > 1])

\* the optional arguments of a non-streaming call: masks of the right shape
\* and one attention mask with a column too many
OfflineChoices(L) ==
    {[mask_pad |-> NoPad, attn_mask |-> a] :
        a \in {NoMask, AttnMask(L, L), AttnMask(L, L + 1)}}
    \cup {[mask_pad |-> OfflinePad(L), attn_mask |-> NoMask]}

OfflineCellCall(m, L, mask_pad, attn_mask) ==
    /\ modules[m].cls = "SRUppTransducerCell"
    /\ \E res \in {CellForward(modules[m], [ndim |-> 3, rows |-> OfflineRows(L)],
                               NoCarry, mask_pad, attn_mask, 0, heap)} :
         /\ heap' = res.heap
         /\ last' = [NoCall EXCEPT !.op = "cell", !.ref = 0, !.m = m, !.L = L,
                       !.mask_pad = mask_pad.given,
                       !.attn_mask = MaskShape(attn_mask),
                       !.err = res.err, !.out = res.h, !.c = res.c,
                       !.state = res.state, !.obs = res.obs,
                       !.recurred = res.recurred, !.stored = res.heap # heap]
    /\ UNCHANGED <<modules, sessions, carry, fed, ready, outs, solo, plain, clf, train>>

OfflineTransformCall(op, m, L, mask_pad, attn_mask) ==
    /\ \E res \in {TransformForward(modules[m], OfflineRows(L), mask_pad,
                                    attn_mask, 0, heap)} :
         /\ heap' = res.heap
         /\ last' = [NoCall EXCEPT !.op = op, !.ref = 0, !.m = m, !.L = L,
                       !.mask_pad = mask_pad.given,
                       !.attn_mask = MaskShape(attn_mask),
                       !.err = res.err, !.out = res.output,
                       !.state = res.state, !.obs = res.obs,
                       !.stored = res.heap # heap]
    /\ UNCHANGED <<modules, sessions, carry, fed, ready, outs, solo, plain, clf, train>>

OfflineCellStep ==
    \E s \in sessions, L \in 0..MaxChunk :
        \E a \in OfflineChoices(L) : OfflineCellCall(s[2], L, a.mask_pad, a.attn_mask)

OfflineAttentionStep ==
    \E s \in sessions, L \in 0..MaxChunk :
        \E a \in OfflineChoices(L) :
            /\ modules[s[2]].cls = "SRUppTransducerAttention"
            /\ OfflineTransformCall("attention", s[2], L, a.mask_pad, a.attn_mask)

OfflineLinearStep ==
    \E s \in sessions, L \in 0..MaxChunk :
        \E a \in OfflineChoices(L) :
            /\ modules[s[2]].cls = "SRUppTransducerLinear"
            /\ OfflineTransformCall("linear", s[2], L, a.mask_pad, a.attn_mask)

NextOffline ==
    \/ PlainCellStep \/ PlainAttentionStep \/ PlainLinearStep
    \/ OfflineCellStep \/ OfflineAttentionStep \/ OfflineLinearStep

\* one module: a streaming session, and non-streaming calls made in between
SpecOffline == Init /\ [][NextOffline]_vars

\* ------------------------------------------------ the classification Model
\* token sequences of 1..MaxLen timesteps, as a (time, batch) tensor
ClassifierInputs ==
    {[axes |-> <<"time", "batch">>, toks |-> t] :
        t \in UNION {[1..n -> Vocab] : n \in 1..MaxLen}}

\* model = Model(args, emb_layer)
ModelInit ==
    /\ ~clf.model.built
    /\ \E cnn \in BOOLEAN, lstm \in BOOLEAN :
          clf' = [clf EXCEPT !.model = NewModel(cnn, lstm, 128)]
    /\ UNCHANGED <<modules, sessions, heap, carry, fed, ready, outs, solo, plain, last,
                   train>>

\* output, hidden = model(x)
ModelForwardStep ==
    /\ clf.model.built
    /\ clf.calls < MaxCalls
    /\ \E input \in ClassifierInputs :
          clf' = [clf EXCEPT !.calls = @ + 1, !.input = input.toks,
                             !.ret = ModelForward(clf.model, input)]
    /\ UNCHANGED <<modules, sessions, heap, carry, fed, ready, outs, solo, plain, last,
                   train>>

InitClassifier ==
    /\ InitSessions
    /\ sessions = {}
    /\ modules = [m \in ModuleIds |-> NoModule]

NextClassifier == ModelInit \/ ModelForwardStep

SpecClassifier == InitClassifier /\ [][NextClassifier]_vars

\* ---------------------------------------------------- main's training loop
\* main up to line 224: the model is built, best_valid and test_err are set
MainStart ==
    /\ ~train.started /\ ~clf.model.built
    /\ \E cnn \in BOOLEAN, lstm \in BOOLEAN, max_epoch \in 0..MaxEpoch :
          /\ clf' = [clf EXCEPT !.model = NewModel(cnn, lstm, 128)]
          /\ train' = [NoTraining EXCEPT !.started = TRUE, !.max_epoch = max_epoch]
    /\ UNCHANGED <<modules, sessions, heap, carry, fed, ready, outs, solo, plain, last>>

\* one iteration of  for epoch in range(args.max_epoch)  whose train_model
\* returns
TrainEpoch ==
    /\ train.started /\ train.err = OK
    /\ train.epoch < train.max_epoch
    /\ TrainFailures(clf.model) = {}
    /\ \E valid_correct \in 0..SetSize, test_correct \in 0..SetSize :
         \E res \in {TrainModel(train.best_valid, train.test_err,
                                EvalModel(valid_correct), EvalModel(test_correct))} :
            train' = [train EXCEPT
                        !.epoch = @ + 1,
                        !.best_valid = res.best_valid,
                        !.test_err = res.test_err,
                        !.valid_hist = Append(@, EvalModel(valid_correct)),
                        !.test_hist = Append(@,
                            [evaluated |-> res.evaluated,
                             test |-> IF res.evaluated
                                      THEN EvalModel(test_correct) ELSE 0])]
    /\ UNCHANGED <<modules, sessions, heap, carry, fed, ready, outs, solo, plain, last,
                   clf>>

\* an iteration whose train_model raises: the exception leaves main
TrainEpochFails ==
    /\ train.started /\ train.err = OK
    /\ train.epoch < train.max_epoch
    /\ \E e \in TrainFailures(clf.model) : train' = [train EXCEPT !.err = e]
    /\ UNCHANGED <<modules, sessions, heap, carry, fed, ready, outs, solo, plain, last,
                   clf>>

NextTraining == MainStart \/ TrainEpoch \/ TrainEpochFails

SpecTraining == InitClassifier /\ [][NextTraining]_vars

\* =================================================================== claims
\* the state record a session's dict holds under the key "attn_state"
Record(s) == heap[s[1]].val["attn_state"]
RightWindow(s) == modules[s[2]].right_window
LastSession == <<last.ref, last.m>>
\* the latest action was a streaming call that got as far as the cursor
Streamed == last.op \in {"cell", "attention", "linear"} /\ last.obs.streaming
\* the projected queries of the latest call's chunk
LastChunkQueries ==
    Linear1(modules[last.m], [k \in 1..last.L |-> fed[LastSession] - last.L + k])

\* C2 -- window bound: after every call of a streaming session, whatever the
\* chunk lengths (0 included), saved_query holds at most right_window rows.
C2_WindowBound ==
    \A s \in sessions : Len(Record(s).saved_query) <= RightWindow(s)

\* a full window that a zero-length chunk left in place
C2_Witness ==
    /\ Streamed /\ last.err = OK /\ last.L = 0
    /\ RightWindow(LastSession) >= 1
    /\ Len(Record(LastSession).saved_query) = RightWindow(LastSession)

\* C3 -- monotonic growth: in an attention session saved_key and saved_value
\* have the same length, equal to the sum of num_ready over the calls so far,
\* and that length never decreases from one call to the next.
C3_LengthsAgree ==
    \A s \in sessions :
        modules[s[2]].has_attention =>
            /\ Len(Record(s).saved_key) = ready[s]
            /\ Len(Record(s).saved_value) = ready[s]

C3_MonotonicGrowth ==
    /\ []C3_LengthsAgree
    /\ [][\A s \in sessions :
            modules[s[2]].has_attention =>
                /\ Len(Record(s).saved_key') >= Len(Record(s).saved_key)
                /\ Len(Record(s).saved_value') >= Len(Record(s).saved_value)]_vars

\* an attention call that appended to a history that was not empty
C3_Witness ==
    /\ Streamed /\ modules[last.m].has_attention
    /\ last.obs.pre.saved_key # <<>> /\ last.obs.num_ready >= 1
    /\ Len(Record(LastSession).saved_key) = ready[LastSession]
    /\ ready[LastSession] > last.obs.num_ready

\* C4 -- cursor step: a streaming call with H_prev held-back queries and a
\* chunk of L_in rows releases num_ready = max(0, H_prev + L_in - right_window)
\* rows, the first num_ready of saved_query followed by the chunk, and stores
\* the remaining min(H_prev + L_in, right_window) as the new saved_query; once
\* right_window timesteps have arrived exactly right_window are held back.
C4_CursorStep ==
    Streamed =>
        LET s == LastSession
            H_prev == Len(last.obs.pre.saved_query)
            all == last.obs.pre.saved_query \o LastChunkQueries
            n == Max(0, H_prev + last.L - RightWindow(s))
        IN /\ last.obs.num_ready = n
           /\ last.obs.query_ready = SubSeq(all, 1, n)
           /\ Record(s).saved_query = SubSeq(all, n + 1, Len(all))
           /\ Len(Record(s).saved_query) = Min(H_prev + last.L, RightWindow(s))
           /\ (fed[s] >= RightWindow(s) => Len(Record(s).saved_query) = RightWindow(s))

\* right_window = 2, chunks 3 and 2: the second call releases 2, 3 in all,
\* and leaves 2 held
C4_Witness ==
    /\ Streamed /\ RightWindow(LastSession) = 2
    /\ last.L = 2 /\ last.obs.num_ready = 2
    /\ fed[LastSession] = 5 /\ ready[LastSession] = 3
    /\ Len(Record(LastSession).saved_query) = 2

\* C5 (as stated) -- draining: with right_window rows held, one further chunk
\* of right_window rows releases right_window rows and leaves saved_query empty.
C5_DrainsToEmpty ==
    (/\ Streamed
     /\ Len(last.obs.pre.saved_query) = RightWindow(LastSession)
     /\ last.L = RightWindow(LastSession))
    => /\ last.obs.num_ready = RightWindow(LastSession)
       /\ Len(Record(LastSession).saved_query) = 0

\* C5 (amended) -- with right_window rows held, one further chunk of
\* right_window rows releases exactly the rows that were held and leaves
\* saved_query holding the right_window rows of the new chunk.
C5_WindowRefilled ==
    (/\ Streamed
     /\ Len(last.obs.pre.saved_query) = RightWindow(LastSession)
     /\ last.L = RightWindow(LastSession))
    => /\ last.obs.num_ready = RightWindow(LastSession)
       /\ last.obs.query_ready = last.obs.pre.saved_query
       /\ Record(LastSession).saved_query = LastChunkQueries
       /\ Len(Record(LastSession).saved_query) = RightWindow(LastSession)

\* right_window = 2, two rows held, a chunk of two rows fed
C5_Witness ==
    /\ Streamed /\ RightWindow(LastSession) = 2
    /\ Len(last.obs.pre.saved_query) = 2 /\ last.L = 2
    /\ last.obs.num_ready = 2
    /\ Len(Record(LastSession).saved_query) = 2

\* the non-streaming call of a session's cell on timesteps 1..N
NonStreaming(s, N) ==
    CellForward(modules[s[2]], [ndim |-> 3, rows |-> [k \in 1..N |-> k]],
                NoCarry, NoPad, NoMask, 0, heap)

\* C1 -- chunk invariance: a cell streamed over any partition of N timesteps
\* followed by at least right_window padding timesteps returns, for timesteps
\* 1..N, the hidden rows of the single non-streaming call on those N
\* timesteps, and the carry after timestep N is the non-streaming final carry.
C1_ChunkInvariance ==
    \A s \in sessions :
        (modules[s[2]].cls = "SRUppTransducerCell" /\ plain[s]) =>
            \A N \in 1..MaxFed :
                fed[s] >= N + RightWindow(s) =>
                    /\ Len(outs[s]) >= N
                    /\ SubSeq(outs[s], 1, N) = NonStreaming(s, N).h
                    /\ carry[s].given
                    /\ Len(carry[s].c) >= N
                    /\ SubSeq(carry[s].c, 1, N) = NonStreaming(s, N).c

\* C6 -- starvation short-circuit: a streaming cell call of either variant in
\* which num_ready is 0 returns without error an empty hidden chunk, the carry
\* it was given (zeros when none), the updated incremental state, and does
\* not run the recurrence.
C6_StarvationShortCircuit ==
    (last.op = "cell" /\ Streamed /\ last.obs.num_ready = 0) =>
        /\ last.err = OK
        /\ last.out = <<>>
        /\ last.c = (IF last.c0.given THEN last.c0.c ELSE <<>>)
        /\ ~last.recurred
        /\ last.state = last.ref
        /\ Record(LastSession).saved_query = last.obs.query_not_ready

IsCall == last.op \in {"cell", "attention", "linear"}

C8_ConstructionValidation ==
    last.op = "construct" =>
        LET attention == \/ last.cls = "SRUppTransducerAttention"
                         \/ last.cls = "SRUppTransducerCell" /\ last.has_attention
            divisible == \E q \in 1..MaxProj + 1 : q * last.num_heads = last.proj_features
        IN /\ last.err = ErrConfig <=> (attention /\ ~divisible)
           /\ last.err \in {OK, ErrConfig}
           /\ last.err = OK <=> modules[last.m] # NoModule
           /\ last.err = OK => /\ modules[last.m].cls = last.cls
                               /\ modules[last.m].proj_features = last.proj_features

\* a cell with has_attention, proj_features = 10, num_heads = 3 is refused
C8_Witness ==
    /\ last.op = "construct" /\ last.cls = "SRUppTransducerCell"
    /\ last.has_attention
    /\ last.proj_features = 10 /\ last.num_heads = 3
    /\ last.err = ErrConfig
    /\ modules[last.m] = NoModule

\* C9 -- session isolation: two sessions with their own dict and carry, on
\* one module instance and interleaved in any order, each see the ready
\* lengths, stored slots and carry they would see running alone.
C9_SessionIsolation ==
    \A s \in sessions :
        /\ heap[s[1]] = solo[s].dict
        /\ carry[s] = solo[s].carry
        /\ (Streamed /\ LastSession = s) => last.obs.num_ready = solo[s].num_ready

\* both sessions are under way, at different points of their streams
C9_Witness ==
    /\ Streamed /\ last.ref = 1
    /\ fed[<<1, 1>>] >= 2 /\ fed[<<2, 1>>] >= 1
    /\ Len(Record(<<1, 1>>).saved_query) >= 1
    /\ Len(Record(<<2, 1>>).saved_query) >= 1
    /\ Record(<<1, 1>>) # Record(<<2, 1>>)

\* C10 (as stated) -- per-module records: two module instances called with
\* the same dict neither read nor overwrite each other's slots: a call reads
\* only queries its own module projected, and every module's record is
\* still in the dict as that module left it.
C10_PerModuleRecords ==
    /\ Streamed => \A k \in 1..Len(last.obs.all_query) : last.obs.all_query[k].w = last.m
    /\ \A s \in sessions :
          solo[s].dict.keys # {} =>
              \E key \in heap[s[1]].keys, own \in solo[s].dict.keys :
                  heap[s[1]].val[key] = solo[s].dict.val[own]

\* what a dict held before the step under the one key the code uses
HeldBefore(r) ==
    IF "attn_state" \in heap[r].keys THEN heap[r].val["attn_state"] ELSE EmptyState

\* C10 (amended) -- the dict holds one record, under the fixed key
\* "attn_state", whichever module is called with it: a call reads the slots
\* last stored in the dict by any module and overwrites them, so two module
\* instances called with the same dict share one record.
C10_OneRecord ==
    /\ \A r \in Refs : heap[r].keys \subseteq {"attn_state"}
    /\ Streamed => Record(LastSession).saved_query = last.obs.query_not_ready

C10_SharedRecord ==
    /\ []C10_OneRecord
    /\ [][(Streamed' /\ last' # last) => last'.obs.pre = HeldBefore(last'.ref)]_vars

\* a call whose all_query starts with a query the other module had saved
C10_Witness ==
    /\ Streamed
    /\ last.obs.all_query # <<>>
    /\ last.obs.all_query[1].w # last.m
    /\ Record(LastSession).saved_query = last.obs.query_not_ready

\* the timestep an output row was computed for
RowTimestep(op, row) == IF op = "cell" THEN row.u.q.t ELSE row.q.t

\* C11 -- non-streaming purity: a call of a transform variant or of the cell
\* without incremental state writes no state record, and when it returns it
\* returns None as state and one output row per timestep of the chunk, in
\* order, whatever right_window is; a streaming call that returns hands back
\* the dict it was given, which then holds the updated record.
C11_NonStreamingPurity ==
    IsCall =>
        IF last.ref = 0
        THEN /\ ~last.stored
             /\ last.err = OK =>
                  /\ last.state = 0
                  /\ Len(last.out) = last.L
                  /\ \A k \in 1..Len(last.out) : RowTimestep(last.op, last.out[k]) = k
        ELSE last.err = OK =>
                  /\ last.state = last.ref
                  /\ "attn_state" \in heap[last.ref].keys
                  /\ Record(LastSession).saved_query = last.obs.query_not_ready

\* a non-streaming call of three timesteps on a module with right_window = 2
\* whose streaming session holds two queries at that moment
C11_Witness ==
    /\ IsCall /\ last.ref = 0 /\ last.err = OK
    /\ last.L = 3 /\ Len(last.out) = 3
    /\ modules[last.m].right_window = 2
    /\ Len(Record(<<1, last.m>>).saved_query) = 2

\* the non-streaming call of a session's linear transform on timesteps a..b
LinearOffline(s, a, b) ==
    LinearForward(modules[s[2]], [k \in 1..(b - a + 1) |-> a + k - 1],
                  NoPad, NoMask, 0, heap).output

\* C12 -- linear stream equivalence: for SRUppTransducerLinear, any
\* right_window and any chunk partition, the outputs returned so far,
\* concatenated, are position by position the non-streaming output for
\* timesteps 1..(fed - right_window): each released timestep once, in order,
\* its row being what the module computes from that timestep alone.
C12_LinearStreamEquivalence ==
    \A s \in sessions :
        modules[s[2]].cls = "SRUppTransducerLinear" =>
            LET released == Max(0, fed[s] - RightWindow(s))
            IN /\ outs[s] = SubSeq(LinearOffline(s, 1, fed[s]), 1, released)
               /\ \A k \in 1..Len(outs[s]) : <<outs[s][k]>> = LinearOffline(s, k, k)

\* right_window = 2, five timesteps fed in chunks, the last chunk joining
\* queries that were held back: timesteps 1..3 are out
C12_Witness ==
    /\ Streamed /\ last.op = "linear" /\ last.err = OK
    /\ RightWindow(LastSession) = 2
    /\ fed[LastSession] = 5 /\ Len(outs[LastSession]) = 3
    /\ Len(last.obs.pre.saved_query) = 2 /\ last.L >= 1
    /\ last.out # <<>>

IsPrefix(a, b) == Len(a) <= Len(b) /\ SubSeq(b, 1, Len(a)) = a

\* the stored history is the one before the call followed by the key and
\* value projections of the call's ready queries, oldest timestep first
C13_Appended ==
    (Streamed /\ modules[last.m].has_attention) =>
        LET s == LastSession
            self == TransformOf(modules[last.m])
        IN /\ Record(s).saved_key =
                last.obs.pre.saved_key \o Linear2Key(self, last.obs.query_ready)
           /\ Record(s).saved_value =
                last.obs.pre.saved_value \o Linear2Value(self, last.obs.query_ready)
           /\ \A i, j \in 1..Len(Record(s).saved_key) :
                i < j => /\ Record(s).saved_key[i].q.t < Record(s).saved_key[j].q.t
                         /\ Record(s).saved_value[i].q.t < Record(s).saved_value[j].q.t

\* C13 -- append-only key/value history: in every streaming attention
\* session each call leaves saved_key and saved_value equal to what was
\* stored before the call, as an unchanged prefix, followed by exactly the
\* projections of this call's ready queries in timestep order; nothing
\* stored earlier is rewritten, dropped or reordered by any later step.
C13_AppendOnlyHistory ==
    /\ []C13_Appended
    /\ [][\A s \in sessions :
            modules[s[2]].has_attention =>
                /\ IsPrefix(Record(s).saved_key, Record(s).saved_key')
                /\ IsPrefix(Record(s).saved_value, Record(s).saved_value')]_vars

\* a call that appends two projections to a history of at least two
C13_Witness ==
    /\ Streamed /\ modules[last.m].has_attention
    /\ Len(last.obs.pre.saved_key) >= 2 /\ last.obs.num_ready >= 2
    /\ IsPrefix(last.obs.pre.saved_key, Record(LastSession).saved_key)
    /\ Len(Record(LastSession).saved_key) = Len(last.obs.pre.saved_key) + 2

\* C14 -- highway alignment: in every streaming cell call that invokes the
\* recurrence, the highway input handed to it has as many rows as U and its
\* k-th row is the input of the timestep U's k-th row was computed for.
\* (U's rows are the ready queries, the highway input is the incoming chunk.)
C14_HighwayAligned ==
    (last.op = "cell" /\ Streamed /\ last.recurred) =>
        /\ last.L = Len(last.obs.query_ready)
        /\ \A k \in 1..Len(last.obs.query_ready) :
              k <= last.L => LastChunkQueries[k].t = last.obs.query_ready[k].t

\* the timesteps of the keys an attention output row was normalised over
KeyTimesteps(row) == {row.keys[j].q.t : j \in 1..Len(row.keys)}
ValueTimesteps(row) == {row.vals[j].q.t : j \in 1..Len(row.vals)}

\* the same module streamed over timesteps n..N one timestep per call,
\* starting from the dict h[1]: the rows it returns, concatenated
RECURSIVE OneByOne(_, _, _, _)
OneByOne(self, n, N, h) ==
    IF n > N THEN <<>>
    ELSE AttentionForward(self, <<n>>, NoPad, NoMask, 1, h).output
         \o OneByOne(self, n + 1, N,
                     AttentionForward(self, <<n>>, NoPad, NoMask, 1, h).heap)

\* C15 -- partition-independent attention context: streaming with no masks,
\* the set of key/value timesteps the ready query of timestep t is normalised
\* over depends on t and right_window alone, so every released row has the
\* key/value set the same timestep gets when the same sequence is streamed
\* under another partition, here one timestep per call.
C15_PartitionIndependentContext ==
    \A s \in sessions :
        (modules[s[2]].cls = "SRUppTransducerAttention" /\ plain[s]) =>
            \A k \in 1..Len(outs[s]) :
                LET t == outs[s][k].q.t
                    other == OneByOne(modules[s[2]], 1, fed[s],
                                      [r \in Refs |-> EmptyDict])
                IN /\ t <= Len(other)
                   /\ other[t].q.t = t
                   /\ KeyTimesteps(outs[s][k]) = KeyTimesteps(other[t])
                   /\ ValueTimesteps(outs[s][k]) = ValueTimesteps(other[t])

\* C16 -- attention-mask alignment: a streaming attention call given a mask
\* with one row per timestep fed so far (this chunk included) keeps the rows
\* R_prev+1..R_now, R being the cumulative ready count, and is accepted if
\* and only if the mask has exactly R_now columns; otherwise it fails with
\* the shape-mismatch error.
C16_MaskAlignment ==
    (/\ Streamed /\ last.op = "attention"
     /\ last.attn_mask.given
     /\ last.attn_mask.nrows = fed[LastSession]) =>
        LET R_now == ready[LastSession]
            R_prev == R_now - last.obs.num_ready
        IN /\ last.obs.mask_rows = [k \in 1..last.obs.num_ready |-> R_prev + k]
           /\ last.err = OK <=> last.attn_mask.cols = R_now
           /\ last.err # OK => last.err = ErrAttnMask

\* the projected queries of timesteps a+1..b of a session's module
QueriesOf(s, a, b) == Linear1(modules[s[2]], [k \in 1..(b - a) |-> a + k])

\* C17 -- release timing: in every streaming session of either variant the
\* timestep t is released as ready in exactly the first call after which
\* the timesteps fed number at least t + right_window: a call that brings
\* the total from F_prev to F releases the timesteps t with
\* F_prev - right_window < t <= F - right_window, in order, and no others,
\* so that every timestep followed by right_window more has been released.
C17_ReleaseTiming ==
    /\ \A s \in sessions : ready[s] = Max(0, fed[s] - RightWindow(s))
    /\ Streamed =>
         LET s == LastSession
             F_prev == fed[s] - last.L
         IN last.obs.query_ready =
                QueriesOf(s, Max(0, F_prev - RightWindow(s)),
                             Max(0, fed[s] - RightWindow(s)))

\* right_window = 2: a chunk of one timestep arriving after two were fed
\* releases timestep 1 and nothing else
C17_Witness ==
    /\ Streamed /\ last.err = OK /\ RightWindow(LastSession) = 2
    /\ last.L = 1 /\ fed[LastSession] = 3
    /\ Len(last.obs.query_ready) = 1
    /\ last.obs.query_ready[1].t = 1
    /\ ready[LastSession] = 1

\* C18 -- conservation of timesteps: in every streaming session of either
\* variant the timesteps fed so far number the released ones plus those in
\* saved_query, and saved_query holds exactly the most recently fed
\* timesteps in arrival order; none is lost or duplicated.
C18_Conservation ==
    \A s \in sessions :
        /\ fed[s] = ready[s] + Len(Record(s).saved_query)
        /\ Record(s).saved_query =
              QueriesOf(s, fed[s] - Len(Record(s).saved_query), fed[s])

\* five timesteps fed in several calls, three released, timesteps 4 and 5 held
C18_Witness ==
    /\ Streamed /\ last.err = OK
    /\ fed[LastSession] = 5 /\ ready[LastSession] = 3
    /\ last.L < 5
    /\ Len(Record(LastSession).saved_query) = 2
    /\ Record(LastSession).saved_query[1].t = 4
    /\ Record(LastSession).saved_query[2].t = 5

\* C19 -- no partial update on failure: whenever a streaming call of the
\* attention transform or of the cell fails (pad mask given with a state,
\* attention-mask shape mismatch, input that is not 3-axis), the dict and
\* its saved_query/saved_key/saved_value slots are as they were before the
\* call.
C19_NoPartialUpdate ==
    (/\ IsCall /\ last.ref # 0
     /\ last.op \in {"attention", "cell"}
     /\ last.err \in {AssertMaskPad, ErrAttnMask, ErrDim}) => ~last.stored

\* C20 -- Model.forward returns a (logits, hidden) pair, hidden being the
\* encoder's final recurrent state computed in that same call, for every
\* encoder configuration the constructor accepts (cnn, lstm, default SRU).
C20_ForwardReturnsPair ==
    clf.calls >= 1 =>
        /\ clf.ret.err = OK
        /\ clf.ret.hidden.bound
        /\ clf.ret.hidden.of = [k \in 1..Len(clf.input) |-> [emb |-> clf.input[k]]]

\* the least validation error of epochs 1..n, the initial 1e+8 when n = 0
RECURSIVE BestUpTo(_, _)
BestUpTo(hist, n) ==
    IF n = 0 THEN InitialBest ELSE Min(hist[n], BestUpTo(hist, n - 1))

\* the first epoch whose validation error is the least so far
FirstBest(hist) ==
    CHOOSE e \in 1..Len(hist) :
        /\ hist[e] = BestUpTo(hist, Len(hist))
        /\ \A d \in 1..(e - 1) : hist[d] > hist[e]

\* after every call of train_model best_valid is the least validation error
\* of any epoch so far and test_err is the test error measured in the first
\* epoch that reached it; the test set was evaluated in exactly the epochs
\* whose validation error was strictly below the best before them
C21_Tracked ==
    train.epoch >= 1 =>
        /\ train.best_valid = BestUpTo(train.valid_hist, train.epoch)
        /\ train.test_hist[FirstBest(train.valid_hist)].evaluated
        /\ train.test_err = train.test_hist[FirstBest(train.valid_hist)].test
        /\ \A e \in 1..train.epoch :
              train.test_hist[e].evaluated <=>
                  train.valid_hist[e] < BestUpTo(train.valid_hist, e - 1)

\* C21 -- best-model tracking: across the epochs run by main, after every
\* call of train_model best_valid is the minimum validation error of any
\* epoch so far and never increases, test_err is the test error measured in
\* the first epoch that achieved that minimum, and test_err is re-evaluated
\* only in an epoch whose validation error is strictly below the previous
\* best_valid and is otherwise carried over unchanged.
C21_BestModelTracking ==
    /\ []C21_Tracked
    /\ [][train'.epoch = train.epoch + 1 =>
            /\ train'.best_valid <= train.best_valid
            /\ IF train'.valid_hist[train'.epoch] < train.best_valid
               THEN train'.test_hist[train'.epoch].evaluated
               ELSE /\ ~train'.test_hist[train'.epoch].evaluated
                    /\ train'.test_err = train.test_err
                    /\ train'.best_valid = train.best_valid]_vars

\* three epochs with validation errors 2/3, 1/3, 1/3: the test set was
\* evaluated in the first two, and the tie of the third left test_err alone
C21_Witness ==
    /\ train.epoch = 3
    /\ train.valid_hist = <<2, 1, 1>>
    /\ train.best_valid = 1
    /\ train.test_hist[2].evaluated /\ ~train.test_hist[3].evaluated
    /\ train.test_err = train.test_hist[2].test
    /\ train.test_err # train.test_hist[1].test

====
